---- MODULE Spec2Model ----
(***************************************************************************)
(* A model of dm-helper: the abilities point budget (package abilities),   *)
(* the inventory (package inventory), the character (package character)    *)
(* and the two HTTP handlers of game.go.                                   *)
(***************************************************************************)
EXTENDS Integers, Sequences, FiniteSets, TLC

VARIABLES
    newArgs,     \* the six arguments of a NewAbilities call
    newRes,      \* what that call returned: [val, err], err = "pending" before it
    abl,         \* an Abilities value under AddToAbility / SetAbility
    ablOp,       \* the last method called on abl, with its arguments
    ablErr,      \* the error that call returned ("nil" for none)
    nOps,        \* how many methods were called on abl
    Items,       \* Inventory.Items: the entries of one inventory, in order
    invRet,      \* the last inventory method called: its name, result and log line
    nInvOps,     \* how many methods were called on the inventory
    chr,         \* a Character under its setters
    chrOp,       \* the last setter called on chr, with its argument
    nChrOps,     \* how many methods were called on chr
    absCopy,     \* the Abilities value a GetAbilities call on chr returned: <<>> before
                 \* the call, then <<a>>, a as the caller has changed it since
    characters,  \* main's characters: the stored characters, in order
    resp         \* what the last handler call wrote to its http.ResponseWriter

ablVars == <<abl, ablOp, ablErr, nOps>>
newVars == <<newArgs, newRes>>
invVars == <<Items, invRet, nInvOps>>
chrVars == <<chr, chrOp, nChrOps, absCopy>>
svcVars == <<characters, resp>>
vars == <<newArgs, newRes, abl, ablOp, ablErr, nOps, Items, invRet, nInvOps,
          chr, chrOp, nChrOps, absCopy, characters, resp>>

\* What each specification leaves alone.
outsideNew == <<ablVars, invVars, chrVars, svcVars>>
outsideAbilities == <<newVars, invVars, chrVars, svcVars>>
outsideInventory == <<newVars, ablVars, chrVars, svcVars>>
outsideCharacter == <<newVars, ablVars, invVars, svcVars>>
outsideService == <<newVars, ablVars, invVars, chrVars>>

(***************************************************************************)
(* package abilities                                                       *)
(***************************************************************************)
MinAbilityValue == 1
MaxAbilityValue == 10
DefaultAbilityValue == 5
AbilityPointBudget == 5

\* The six names the switch statements of AddToAbility and SetAbility know.
AbilityNames == {"strength", "luck", "charisma", "agility", "perception", "intelligence"}

\* type Abilities struct
Abilities(pool, strength, luck, charisma, agility, perception, intelligence) ==
    [pointsPool |-> pool, strength |-> strength, luck |-> luck, charisma |-> charisma,
     agility |-> agility, perception |-> perception, intelligence |-> intelligence]

\* Abilities{}: the zero value returned beside an error
ZeroAbilities == Abilities(0, 0, 0, 0, 0, 0, 0)

NewDefaultAbilities ==
    Abilities(AbilityPointBudget, DefaultAbilityValue, DefaultAbilityValue, DefaultAbilityValue,
              DefaultAbilityValue, DefaultAbilityValue, DefaultAbilityValue)

\* A mutant of NewAbilities: the upper range check is off by one (> becomes >=).
NewAbilitiesOffByOne(strength, luck, charisma, agility, perception, intelligence) ==
    LET abilities == <<strength, luck, charisma, agility, perception, intelligence>>
        totalAbilitySum == strength + luck + charisma + agility + perception + intelligence
        expectedSum == (6 * DefaultAbilityValue) + AbilityPointBudget
    IN  IF \E i \in 1..6 : abilities[i] < MinAbilityValue \/ abilities[i] >= MaxAbilityValue
        THEN [val |-> ZeroAbilities, err |-> "range"]
        ELSE IF totalAbilitySum # expectedSum
        THEN [val |-> ZeroAbilities, err |-> "sum"]
        ELSE [val |-> Abilities(0, strength, luck, charisma, agility, perception, intelligence),
              err |-> "nil"]

\* NewAbilities: [val, err]; err is "nil" on success.
NewAbilities(strength, luck, charisma, agility, perception, intelligence) ==
    LET abilities == <<strength, luck, charisma, agility, perception, intelligence>>
        totalAbilitySum == strength + luck + charisma + agility + perception + intelligence
        expectedSum == (6 * DefaultAbilityValue) + AbilityPointBudget
        pointsSpent == (strength - DefaultAbilityValue) + (luck - DefaultAbilityValue)
                       + (charisma - DefaultAbilityValue) + (agility - DefaultAbilityValue)
                       + (perception - DefaultAbilityValue) + (intelligence - DefaultAbilityValue)
        remainingPoints == AbilityPointBudget - pointsSpent
    IN  IF \E i \in 1..6 : abilities[i] < MinAbilityValue \/ abilities[i] > MaxAbilityValue
        THEN [val |-> ZeroAbilities, err |-> "range"]
        ELSE IF totalAbilitySum # expectedSum
        THEN [val |-> ZeroAbilities, err |-> "sum"]
        ELSE [val |-> Abilities(remainingPoints, strength, luck, charisma, agility,
                                perception, intelligence),
              err |-> "nil"]

\* The closure getCurrentValue of AddToAbility and of SetAbility.
GetCurrentValue(a, abilityName) ==
    IF abilityName \in AbilityNames THEN a[abilityName] ELSE 0

\* A mutant of AddToAbility: the check of the points pool is missing.
AddToAbilityNoPoolCheck(a, abilityName, value) ==
    LET currentValue == GetCurrentValue(a, abilityName)
        newValue == currentValue + value
        pointDelta == (newValue - DefaultAbilityValue) - (currentValue - DefaultAbilityValue)
    IN  IF newValue < MinAbilityValue THEN [a |-> a, err |-> "below_minimum"]
        ELSE IF newValue > MaxAbilityValue THEN [a |-> a, err |-> "above_maximum"]
        ELSE IF abilityName \notin AbilityNames THEN [a |-> a, err |-> "unknown_ability"]
        ELSE [a |-> [a EXCEPT ![abilityName] = newValue, !.pointsPool = @ - pointDelta],
              err |-> "nil"]

\* (a *Abilities) AddToAbility: [a, err], a the receiver after the call.
AddToAbility(a, abilityName, value) ==
    LET currentValue == GetCurrentValue(a, abilityName)
        newValue == currentValue + value
        currentCost == currentValue - DefaultAbilityValue
        newCost == newValue - DefaultAbilityValue
        pointDelta == newCost - currentCost
    IN  IF newValue < MinAbilityValue THEN [a |-> a, err |-> "below_minimum"]
        ELSE IF newValue > MaxAbilityValue THEN [a |-> a, err |-> "above_maximum"]
        ELSE IF pointDelta > 0 /\ a.pointsPool < pointDelta
        THEN [a |-> a, err |-> "insufficient_points"]
        ELSE IF abilityName \notin AbilityNames THEN [a |-> a, err |-> "unknown_ability"]
        ELSE [a |-> [a EXCEPT ![abilityName] = newValue, !.pointsPool = @ - pointDelta],
              err |-> "nil"]

\* A mutant of SetAbility: the points pool is not updated after the write.
SetAbilityNoDebit(a, abilityName, value) ==
    LET currentValue == GetCurrentValue(a, abilityName)
        pointDelta == (value - DefaultAbilityValue) - (currentValue - DefaultAbilityValue)
    IN  IF value < MinAbilityValue THEN [a |-> a, err |-> "below_minimum"]
        ELSE IF value > MaxAbilityValue THEN [a |-> a, err |-> "above_maximum"]
        ELSE IF pointDelta > 0 /\ a.pointsPool < pointDelta
        THEN [a |-> a, err |-> "insufficient_points"]
        ELSE IF abilityName \notin AbilityNames THEN [a |-> a, err |-> "unknown_ability"]
        ELSE [a |-> [a EXCEPT ![abilityName] = value], err |-> "nil"]

\* (a *Abilities) SetAbility: [a, err], a the receiver after the call.
SetAbility(a, abilityName, value) ==
    LET currentValue == GetCurrentValue(a, abilityName)
        currentCost == currentValue - DefaultAbilityValue
        newCost == value - DefaultAbilityValue
        pointDelta == newCost - currentCost
    IN  IF value < MinAbilityValue THEN [a |-> a, err |-> "below_minimum"]
        ELSE IF value > MaxAbilityValue THEN [a |-> a, err |-> "above_maximum"]
        ELSE IF pointDelta > 0 /\ a.pointsPool < pointDelta
        THEN [a |-> a, err |-> "insufficient_points"]
        ELSE IF abilityName \notin AbilityNames THEN [a |-> a, err |-> "unknown_ability"]
        ELSE [a |-> [a EXCEPT ![abilityName] = value, !.pointsPool = @ - pointDelta],
              err |-> "nil"]

(***************************************************************************)
(* package inventory                                                       *)
(***************************************************************************)
MinItemAbilityValue == 1
MaxItemAbilityValue == 4

\* A *abilities.Abilities is <<>> for nil and <<a>> for a pointer to a.
NilAbilities == <<>>

\* type Item struct
Item(name, quantity, abilities, condition, description) ==
    [Name |-> name, quantity |-> quantity, abilities |-> abilities,
     condition |-> condition, description |-> description]

\* Item{}: the zero value returned beside an error
ZeroItem == Item("", 0, NilAbilities, "", "")

\* A mutant of NewItem: the abilities of the item are not validated.
NewItemNoAbilityCheck(name, quantity, abilities, condition, description) ==
    IF quantity <= 0 THEN [val |-> ZeroItem, err |-> "quantity"]
    ELSE [val |-> Item(name, quantity, abilities, condition, description), err |-> "nil"]

\* NewItem: [val, err]; err is "nil" on success.
NewItem(name, quantity, abilities, condition, description) ==
    IF quantity <= 0 THEN [val |-> ZeroItem, err |-> "quantity"]
    ELSE IF /\ abilities # NilAbilities
            /\ \E n \in AbilityNames :
                   /\ abilities[1][n] # 0
                   /\ (abilities[1][n] < MinItemAbilityValue
                       \/ abilities[1][n] > MaxItemAbilityValue)
    THEN [val |-> ZeroItem, err |-> "item_ability"]
    ELSE [val |-> Item(name, quantity, abilities, condition, description), err |-> "nil"]

\* NewInventory: the Items of an empty inventory
NewInventory == <<>>

\* The loop of AddItem: the first entry with item's name and condition, 0 for none.
FindStack(items, item) ==
    LET I == {i \in 1..Len(items) :
                 items[i].Name = item.Name /\ items[i].condition = item.condition}
    IN  IF I = {} THEN 0 ELSE CHOOSE i \in I : \A j \in I : i <= j

\* A mutant of AddItem: entries are stacked by name alone.
AddItemByName(items, item) ==
    LET I == {i \in 1..Len(items) : items[i].Name = item.Name}
        i == IF I = {} THEN 0 ELSE CHOOSE k \in I : \A j \in I : k <= j
    IN  IF i # 0
        THEN [Items |-> [items EXCEPT ![i].quantity = @ + item.quantity], log |-> "stacked"]
        ELSE [Items |-> Append(items, item), log |-> "new"]

\* (inv *Inventory) AddItem: [Items, log], Items the entries after the call.
AddItem(items, item) ==
    LET i == FindStack(items, item)
    IN  IF i # 0
        THEN [Items |-> [items EXCEPT ![i].quantity = @ + item.quantity], log |-> "stacked"]
        ELSE [Items |-> Append(items, item), log |-> "new"]

\* (inv *Inventory) GetItem: the index of the entry the returned pointer is to, 0 for nil.
GetItem(items, name) ==
    LET I == {i \in 1..Len(items) : items[i].Name = name}
    IN  IF I = {} THEN 0 ELSE CHOOSE i \in I : \A j \in I : i <= j

\* append(inv.Items[:i], inv.Items[i+1:]...)
RemoveAt(items, i) == SubSeq(items, 1, i - 1) \o SubSeq(items, i + 1, Len(items))

\* A mutant of RemoveItem: the sufficiency check is <= instead of <.
RemoveItemOffByOne(items, name, quantity) ==
    LET i == GetItem(items, name)
    IN  IF i = 0 THEN [Items |-> items, err |-> "not_found", log |-> "none"]
        ELSE IF items[i].quantity <= quantity
        THEN [Items |-> items, err |-> "insufficient", log |-> "none"]
        ELSE [Items |-> [items EXCEPT ![i].quantity = @ - quantity], err |-> "nil",
              log |-> "remaining"]

\* (inv *Inventory) RemoveItem: [Items, err, log].
RemoveItem(items, name, quantity) ==
    LET i == GetItem(items, name)
    IN  IF i = 0 THEN [Items |-> items, err |-> "not_found", log |-> "none"]
        ELSE IF items[i].quantity < quantity
        THEN [Items |-> items, err |-> "insufficient", log |-> "none"]
        ELSE IF items[i].quantity - quantity = 0
        THEN [Items |-> RemoveAt(items, i), err |-> "nil", log |-> "depleted"]
        ELSE [Items |-> [items EXCEPT ![i].quantity = @ - quantity], err |-> "nil",
              log |-> "remaining"]

\* (inv *Inventory) HasItem
HasItem(items, name, quantity) ==
    \E i \in 1..Len(items) : items[i].Name = name /\ items[i].quantity >= quantity

\* The field names the switch of ChangeItem knows.
FieldNames == {"name", "quantity", "condition", "description", "abilities"}

\* A value of type any given to ChangeItem: its dynamic type and, by type, its
\* value (s for a string or a Condition, n for an int, abs for a *Abilities).
AnyValue(type, s, n, abs) == [type |-> type, s |-> s, n |-> n, abs |-> abs]

\* The loop over fields in ChangeItem, on the entry the pointer is to:
\* [item, known], known FALSE when the loop met a field outside FieldNames.
RECURSIVE ApplyFields(_, _, _)
ApplyFields(item, fields, newVal) ==
    IF fields = <<>> THEN [item |-> item, known |-> TRUE]
    ELSE LET field == Head(fields)
             rest == Tail(fields)
         IN  CASE field = "name" ->
                     ApplyFields(IF newVal.type = "string"
                                 THEN [item EXCEPT !.Name = newVal.s] ELSE item,
                                 rest, newVal)
               [] field = "quantity" ->
                     ApplyFields(IF newVal.type = "int"
                                 THEN [item EXCEPT !.quantity = newVal.n] ELSE item,
                                 rest, newVal)
               [] field = "condition" ->
                     ApplyFields(IF newVal.type = "Condition"
                                 THEN [item EXCEPT !.condition = newVal.s] ELSE item,
                                 rest, newVal)
               [] field = "description" ->
                     ApplyFields(IF newVal.type = "string"
                                 THEN [item EXCEPT !.description = newVal.s] ELSE item,
                                 rest, newVal)
               [] field = "abilities" ->
                     ApplyFields(IF newVal.type = "*Abilities"
                                 THEN [item EXCEPT !.abilities = newVal.abs] ELSE item,
                                 rest, newVal)
               [] OTHER -> [item |-> item, known |-> FALSE]

\* (inv *Inventory) ChangeItem: [Items, ptr, log], ptr the index of the entry the
\* returned pointer is to, 0 for nil.
ChangeItem(items, name, fields, newVal) ==
    IF Len(items) = 0 THEN [Items |-> items, ptr |-> 0, log |-> "none"]
    ELSE LET i == GetItem(items, name)
         IN  IF i = 0 THEN [Items |-> items, ptr |-> 0, log |-> "none"]
             ELSE LET r == ApplyFields(items[i], fields, newVal)
                  IN  [Items |-> [items EXCEPT ![i] = r.item],
                       ptr |-> IF r.known THEN i ELSE 0,
                       log |-> IF r.known THEN "none" ELSE "unknown_field"]

\* (inv *Inventory) GetTotalWeight
RECURSIVE GetTotalWeight(_)
GetTotalWeight(items) ==
    IF items = <<>> THEN 0 ELSE Head(items).quantity + GetTotalWeight(Tail(items))

\* (inv *Inventory) Clear
Clear == <<>>

(***************************************************************************)
(* Inputs of the inventory model                                           *)
(***************************************************************************)
\* Item names, also the strings given to ChangeItem.
StringInputs == {"Sword", "Bow"}
ConditionInputs == {"New", "Used"}
\* Quantities given to NewItem, RemoveItem and ChangeItem.
QuantityInputs == {-1, 0, 1, 2}
\* Pointers given as an item's abilities: nil, the default value, the zero value.
AbilitiesInputs == {NilAbilities, <<NewDefaultAbilities>>}
EnchantedBow == NewItem("Bow", 1, <<ZeroAbilities>>, "New", "")

\* The items callers hold: what NewItem returned without an error.
ItemInputs ==
    {r.val : r \in {x \in {NewItem(n, q, a, c, "") :
                               n \in StringInputs, q \in QuantityInputs,
                               a \in AbilitiesInputs, c \in ConditionInputs}
                           \cup {EnchantedBow} :
                       x.err = "nil"}}

\* Field lists given to ChangeItem: every list of at most two fields out of the
\* known names and one unknown name.
FieldInputs == FieldNames \cup {"colour"}
FieldListInputs ==
    {<<>>} \cup {<<f>> : f \in FieldInputs} \cup {<<f, g>> : f \in FieldInputs, g \in FieldInputs}

\* Values given to ChangeItem, of each type its switch asserts and of none of them.
AnyInputs ==
    {AnyValue("string", s, 0, NilAbilities) : s \in StringInputs}
    \cup {AnyValue("int", "", 0, NilAbilities),
          AnyValue("Condition", "Used", 0, NilAbilities),
          AnyValue("*Abilities", "", 0, <<ZeroAbilities>>),
          AnyValue("nil", "", 0, NilAbilities)}

\* At most MaxInvOps methods are called on one inventory.
MaxInvOps == 3

NoCall == [op |-> "none", err |-> "nil", ptr |-> 0, log |-> "none"]

InvIdle ==
    /\ Items = NewInventory
    /\ invRet = NoCall
    /\ nInvOps = 0

(***************************************************************************)
(* package condition, package character                                    *)
(***************************************************************************)
\* condition.NewCondition: a Condition is its string
NewCondition(cond) == cond

\* type Character struct
NewCharacter(race, name, class, abs, inv, cond) ==
    [race |-> race, name |-> name, class |-> class, abilities |-> abs, inventory |-> inv,
     condition |-> cond, manaPoints |-> abs.intelligence * 50]

NewDefaultCharacter(race, name, class) ==
    [race |-> race, name |-> name, class |-> class, abilities |-> NewDefaultAbilities,
     inventory |-> NewInventory, condition |-> NewCondition("Healthy"),
     manaPoints |-> NewDefaultAbilities.intelligence * 50]

\* A mutant of SetName: the check for the empty string is missing.
SetNameUnchecked(c, newName) == [c EXCEPT !.name = newName]

\* (c *Character) SetName: c after the call
SetName(c, newName) == IF newName # "" THEN [c EXCEPT !.name = newName] ELSE c

\* (c *Character) SetClass: c after the call
SetClass(c, newClass) == IF newClass # "" THEN [c EXCEPT !.class = newClass] ELSE c

\* (c *Character) SetCondition: c after the call
SetCondition(c, newCondition) ==
    IF newCondition # "" THEN [c EXCEPT !.condition = newCondition] ELSE c

\* (c *Character) SetInventory: c after the call
SetInventory(c, newItem) == [c EXCEPT !.inventory = AddItem(@, newItem).Items]

\* (c *Character) GetAbilities: the value returned
GetAbilities(c) == c.abilities

\* (c *Character) GetManaPoints
GetManaPoints(c) == c.manaPoints

\* A mutant of AfterAbilitiesChange: GetAbilities hands out the character's own
\* Abilities (a pointer to the field), so a change of it is a change of c.
AfterAbilitiesChangeShared(c, a) == [c EXCEPT !.abilities = a]

\* The character c after its caller changed, to a, the Abilities value that
\* GetAbilities returned: the return is by value, a copy, and c keeps its own.
AfterAbilitiesChange(c, a) == c

(***************************************************************************)
(* game.go: the handlers of /create-character and /get-chars               *)
(***************************************************************************)
\* (a *Abilities) GetAllAbilities
GetAllAbilities(a) == [n \in AbilityNames |-> a[n]]

\* type ItemDTO; Abilities is <<>> when the JSON has none, else <<six values>>.
ItemDTO(name, quantity, condition, description, abilities) ==
    [Name |-> name, Quantity |-> quantity, Condition |-> condition,
     Description |-> description, Abilities |-> abilities]

\* type CreateCharacterRequest; Abilities holds the six values.
CreateCharacterRequest(race, name, class, items, abilities, condition) ==
    [Race |-> race, Name |-> name, Class |-> class, Items |-> items,
     Abilities |-> abilities, Condition |-> condition]

\* The abilities of one item of the request: [ptr, err], ptr the *Abilities given
\* to NewItem, err "nil" when the JSON has none or NewAbilities accepted them.
ItemAbilities(itemDTO) ==
    IF itemDTO.Abilities = <<>> THEN [ptr |-> NilAbilities, err |-> "nil"]
    ELSE LET t == itemDTO.Abilities[1]
             itemAbs == NewAbilities(t[1], t[2], t[3], t[4], t[5], t[6])
         IN  IF itemAbs.err # "nil" THEN [ptr |-> NilAbilities, err |-> itemAbs.err]
             ELSE [ptr |-> <<itemAbs.val>>, err |-> "nil"]

\* The loop over req.Inventory.Items: [Items, err], err "" when every item was added.
RECURSIVE BuildInventory(_, _)
BuildInventory(inventory, itemDTOs) ==
    IF itemDTOs = <<>> THEN [Items |-> inventory, err |-> ""]
    ELSE LET itemDTO == Head(itemDTOs)
             itemAbilities == ItemAbilities(itemDTO)
             item == NewItem(itemDTO.Name, itemDTO.Quantity, itemAbilities.ptr,
                             NewCondition(itemDTO.Condition), itemDTO.Description)
         IN  IF itemAbilities.err # "nil"
             THEN [Items |-> inventory, err |-> "Invalid item abilities"]
             ELSE IF item.err # "nil"
             THEN [Items |-> inventory,
                   err |-> IF item.err = "quantity" THEN "Invalid item: quantity"
                           ELSE "Invalid item: item ability"]
             ELSE BuildInventory(AddItem(inventory, item.val).Items, Tail(itemDTOs))

\* One pass of the loop over charReq, up to NewCharacter: [character, err].
CreateOne(req) ==
    LET abilities == NewAbilities(req.Abilities[1], req.Abilities[2], req.Abilities[3],
                                  req.Abilities[4], req.Abilities[5], req.Abilities[6])
        inventory == BuildInventory(NewInventory, req.Items)
        character == NewCharacter(req.Race, req.Name, req.Class, abilities.val,
                                  inventory.Items, NewCondition(req.Condition))
    IN  IF abilities.err # "nil" THEN [character |-> character, err |-> "Invalid abilities"]
        ELSE [character |-> character, err |-> inventory.err]

\* responseData of the /create-character handler
CreatedResponse(character) ==
    [name |-> character.name, race |-> character.race, class |-> character.class,
     abilities |-> GetAllAbilities(character.abilities),
     manaPoints |-> character.manaPoints, condition |-> character.condition,
     items |-> [i \in 1..Len(character.inventory) |-> character.inventory[i].Name]]

\* What a handler wrote: the status of its first WriteHeader (200 when it called
\* none), the documents of created characters, the message of http.Error ("" when
\* not called), and the count and the rows of a listing.
Response(handler, status, created, error, count, rows) ==
    [handler |-> handler, status |-> status, created |-> created, error |-> error,
     count |-> count, rows |-> rows]

\* A mutant of CreateLoop: a request that fails is skipped and the loop goes on.
RECURSIVE CreateLoopSkipping(_, _, _)
CreateLoopSkipping(chars, created, charReq) ==
    IF charReq = <<>> THEN [characters |-> chars, created |-> created, error |-> ""]
    ELSE LET r == CreateOne(Head(charReq))
         IN  IF r.err # ""
             THEN LET rest == CreateLoopSkipping(chars, created, Tail(charReq))
                  IN  [rest EXCEPT !.error = r.err]
             ELSE CreateLoopSkipping(Append(chars, r.character),
                                     Append(created, CreatedResponse(r.character)),
                                     Tail(charReq))

\* The loop over charReq: [characters, created, error], the list, the documents
\* written and the message of the http.Error the loop returned on ("" for none).
RECURSIVE CreateLoop(_, _, _)
CreateLoop(chars, created, charReq) ==
    IF charReq = <<>> THEN [characters |-> chars, created |-> created, error |-> ""]
    ELSE LET r == CreateOne(Head(charReq))
         IN  IF r.err # ""
             THEN [characters |-> chars, created |-> created, error |-> r.err]
             ELSE CreateLoop(Append(chars, r.character),
                             Append(created, CreatedResponse(r.character)),
                             Tail(charReq))

\* One element of responseData in the /get-chars handler.
Row(character, item) ==
    [name |-> character.name, race |-> character.race, class |-> character.class,
     abilities |-> GetAllAbilities(character.abilities),
     manaPoints |-> character.manaPoints, condition |-> character.condition,
     item |-> [name |-> item.Name, qantity |-> item.quantity,
               condition |-> item.condition, description |-> item.description]]

\* A mutant of ListRows: a character without items gets a row with an empty item.
RECURSIVE ListRowsWithEmpty(_)
ListRowsWithEmpty(chars) ==
    IF chars = <<>> THEN <<>>
    ELSE LET character == Head(chars)
         IN  (IF character.inventory = <<>> THEN <<Row(character, ZeroItem)>>
              ELSE [i \in 1..Len(character.inventory) |-> Row(character, character.inventory[i])])
             \o ListRowsWithEmpty(Tail(chars))

\* The two nested loops of the /get-chars handler: responseData.
RECURSIVE ListRows(_)
ListRows(chars) ==
    IF chars = <<>> THEN <<>>
    ELSE LET character == Head(chars)
         IN  [i \in 1..Len(character.inventory) |-> Row(character, character.inventory[i])]
             \o ListRows(Tail(chars))

(***************************************************************************)
(* Inputs of the abilities model                                           *)
(***************************************************************************)
\* Values given to NewAbilities: below, at and above each limit, and around the default.
NewAbilityInputs == {0, 1, 4, 5, 6, 10, 11}

\* Successful constructions the methods start from, beside NewDefaultAbilities.
StartTuples == {<<7, 5, 5, 5, 5, 8>>, <<10, 5, 5, 5, 5, 5>>, <<1, 10, 10, 4, 5, 5>>}

\* Names given to the methods: the six known ones and one they do not know.
NameInputs == AbilityNames \cup {"wisdom"}

\* AddToAbility is given -MaxDelta..MaxDelta.
MaxDelta == 5
\* At most MaxOps methods are called on one Abilities value.
MaxOps == 2

DeltaInputs == (0 - MaxDelta)..MaxDelta
\* SetAbility is given every legal value and one beyond each limit.
SetInputs == (MinAbilityValue - 1)..(MaxAbilityValue + 1)

NoOp == [op |-> "none", name |-> "", value |-> 0]

(***************************************************************************)
(* Inputs of the character model and of the service model                  *)
(***************************************************************************)
\* Strings given to SetName, SetClass and SetCondition: the empty string, a
\* string of one space, and two names.
TextInputs == {"", " ", "Bard", "Rogue"}

\* Items given to SetInventory.
SwordItem == NewItem("Sword", 1, NilAbilities, NewCondition("New"), "").val
BowItem == NewItem("Bow", 2, NilAbilities, NewCondition("Used"), "").val

\* The characters the setters start from.
CharacterInputs ==
    {NewDefaultCharacter("Elf", "Ann", "Bard"),
     NewCharacter("Orc", "Bob", "Rogue", NewAbilities(7, 5, 5, 5, 5, 8).val,
                  <<SwordItem>>, NewCondition("Wounded"))}

\* What the caller does to the Abilities value GetAbilities returned.
CopyNameInputs == {"intelligence", "strength"}
CopyValueInputs == {-2, 1, 4}

\* At most MaxChrOps methods are called on one character.
MaxChrOps == 3

NoSetter == [op |-> "none", arg |-> ""]

ChrIdle ==
    /\ chr = NewDefaultCharacter("Elf", "Ann", "Bard")
    /\ chrOp = NoSetter
    /\ nChrOps = 0
    /\ absCopy = <<>>

\* The requests clients send: two that pass every check (one without items, one
\* whose three items make two entries) and one per check that fails.
RequestInputs ==
    {CreateCharacterRequest("Elf", "Ann", "Bard", <<>>, <<10, 5, 5, 5, 5, 5>>, "Healthy"),
     CreateCharacterRequest("Orc", "Bob", "Rogue",
         <<ItemDTO("Sword", 1, "New", "", <<>>), ItemDTO("Bow", 2, "Used", "", <<>>),
           ItemDTO("Sword", 2, "New", "", <<>>)>>,
         <<7, 5, 5, 5, 5, 8>>, "Healthy"),
     CreateCharacterRequest("Elf", "Cat", "Mage", <<ItemDTO("Sword", 1, "New", "", <<>>)>>,
         <<7, 5, 5, 5, 5, 9>>, "Healthy"),
     CreateCharacterRequest("Elf", "Dan", "Mage",
         <<ItemDTO("Sword", 1, "New", "", <<>>), ItemDTO("Bow", 0, "New", "", <<>>)>>,
         <<7, 5, 5, 5, 5, 8>>, "Healthy"),
     CreateCharacterRequest("Elf", "Eve", "Mage",
         <<ItemDTO("Ring", 1, "New", "", <<<<1, 10, 10, 4, 5, 5>>>>)>>,
         <<7, 5, 5, 5, 5, 8>>, "Healthy"),
     CreateCharacterRequest("Elf", "Fay", "Mage",
         <<ItemDTO("Ring", 1, "New", "", <<<<1, 1, 1, 1, 1, 1>>>>)>>,
         <<7, 5, 5, 5, 5, 8>>, "Healthy")}

\* A request body holds at most MaxBatch requests.
MaxBatch == 2
\* At most MaxChars characters are stored.
MaxChars == 3

BodyInputs == UNION {[1..n -> RequestInputs] : n \in 0..MaxBatch}
MethodInputs == {"POST", "GET"}

NoResponse == Response("none", 0, <<>>, "", 0, <<>>)

SvcIdle ==
    /\ characters = <<>>
    /\ resp = NoResponse

(***************************************************************************)
(* Specification SpecNew: one NewAbilities call on drawn arguments         *)
(***************************************************************************)
AblIdle ==
    /\ abl = NewDefaultAbilities
    /\ ablOp = NoOp
    /\ ablErr = "nil"
    /\ nOps = 0

NewIdle ==
    /\ newArgs = <<5, 5, 5, 5, 5, 5>>
    /\ newRes = [val |-> ZeroAbilities, err |-> "pending"]

InitNew ==
    /\ newArgs \in NewAbilityInputs \X NewAbilityInputs \X NewAbilityInputs
                   \X NewAbilityInputs \X NewAbilityInputs \X NewAbilityInputs
    /\ newRes = [val |-> ZeroAbilities, err |-> "pending"]
    /\ AblIdle
    /\ InvIdle
    /\ ChrIdle
    /\ SvcIdle

CallNewAbilities ==
    /\ newRes.err = "pending"
    /\ newRes' = NewAbilities(newArgs[1], newArgs[2], newArgs[3], newArgs[4], newArgs[5],
                              newArgs[6])
    /\ UNCHANGED <<newArgs, outsideNew>>

NextNew == CallNewAbilities

SpecNew == InitNew /\ [][NextNew]_vars

(***************************************************************************)
(* Specification SpecAbilities: methods called on a constructed value      *)
(***************************************************************************)
InitAbilities ==
    /\ abl \in {NewDefaultAbilities}
               \cup {NewAbilities(t[1], t[2], t[3], t[4], t[5], t[6]).val : t \in StartTuples}
    /\ ablOp = NoOp
    /\ ablErr = "nil"
    /\ nOps = 0
    /\ NewIdle
    /\ InvIdle
    /\ ChrIdle
    /\ SvcIdle

CallAddToAbility(abilityName, value) ==
    /\ nOps < MaxOps
    /\ LET r == AddToAbility(abl, abilityName, value)
       IN  /\ abl' = r.a
           /\ ablErr' = r.err
    /\ ablOp' = [op |-> "AddToAbility", name |-> abilityName, value |-> value]
    /\ nOps' = nOps + 1
    /\ UNCHANGED outsideAbilities

CallSetAbility(abilityName, value) ==
    /\ nOps < MaxOps
    /\ LET r == SetAbility(abl, abilityName, value)
       IN  /\ abl' = r.a
           /\ ablErr' = r.err
    /\ ablOp' = [op |-> "SetAbility", name |-> abilityName, value |-> value]
    /\ nOps' = nOps + 1
    /\ UNCHANGED outsideAbilities

NextAbilities ==
    \/ \E n \in NameInputs, v \in DeltaInputs : CallAddToAbility(n, v)
    \/ \E n \in NameInputs, v \in SetInputs : CallSetAbility(n, v)

SpecAbilities == InitAbilities /\ [][NextAbilities]_vars

(***************************************************************************)
(* Specification SpecInventory: methods called on an empty inventory       *)
(***************************************************************************)
InitInventory ==
    /\ InvIdle
    /\ NewIdle
    /\ AblIdle
    /\ ChrIdle
    /\ SvcIdle

CallAddItem(item) ==
    /\ nInvOps < MaxInvOps
    /\ LET r == AddItem(Items, item)
       IN  /\ Items' = r.Items
           /\ invRet' = [op |-> "AddItem", err |-> "nil", ptr |-> 0, log |-> r.log]
    /\ nInvOps' = nInvOps + 1
    /\ UNCHANGED outsideInventory

CallRemoveItem(name, quantity) ==
    /\ nInvOps < MaxInvOps
    /\ LET r == RemoveItem(Items, name, quantity)
       IN  /\ Items' = r.Items
           /\ invRet' = [op |-> "RemoveItem", err |-> r.err, ptr |-> 0, log |-> r.log]
    /\ nInvOps' = nInvOps + 1
    /\ UNCHANGED outsideInventory

CallChangeItem(name, fields, newVal) ==
    /\ nInvOps < MaxInvOps
    /\ LET r == ChangeItem(Items, name, fields, newVal)
       IN  /\ Items' = r.Items
           /\ invRet' = [op |-> "ChangeItem", err |-> "nil", ptr |-> r.ptr, log |-> r.log]
    /\ nInvOps' = nInvOps + 1
    /\ UNCHANGED outsideInventory

CallClear ==
    /\ nInvOps < MaxInvOps
    /\ Items' = Clear
    /\ invRet' = [op |-> "Clear", err |-> "nil", ptr |-> 0, log |-> "cleared"]
    /\ nInvOps' = nInvOps + 1
    /\ UNCHANGED outsideInventory

NextInventory ==
    \/ \E item \in ItemInputs : CallAddItem(item)
    \/ \E name \in StringInputs, quantity \in QuantityInputs : CallRemoveItem(name, quantity)
    \/ \E name \in StringInputs, fields \in FieldListInputs, newVal \in AnyInputs :
           CallChangeItem(name, fields, newVal)
    \/ CallClear

SpecInventory == InitInventory /\ [][NextInventory]_vars

(***************************************************************************)
(* Specification SpecCharacter: setters called on a character              *)
(***************************************************************************)
InitCharacter ==
    /\ chr \in CharacterInputs
    /\ chrOp = NoSetter
    /\ nChrOps = 0
    /\ absCopy = <<>>
    /\ NewIdle
    /\ AblIdle
    /\ InvIdle
    /\ SvcIdle

CallSetName(newName) ==
    /\ nChrOps < MaxChrOps
    /\ chr' = SetName(chr, newName)
    /\ chrOp' = [op |-> "SetName", arg |-> newName]
    /\ nChrOps' = nChrOps + 1
    /\ UNCHANGED absCopy
    /\ UNCHANGED outsideCharacter

CallSetClass(newClass) ==
    /\ nChrOps < MaxChrOps
    /\ chr' = SetClass(chr, newClass)
    /\ chrOp' = [op |-> "SetClass", arg |-> newClass]
    /\ nChrOps' = nChrOps + 1
    /\ UNCHANGED absCopy
    /\ UNCHANGED outsideCharacter

CallSetCondition(newCondition) ==
    /\ nChrOps < MaxChrOps
    /\ chr' = SetCondition(chr, NewCondition(newCondition))
    /\ chrOp' = [op |-> "SetCondition", arg |-> newCondition]
    /\ nChrOps' = nChrOps + 1
    /\ UNCHANGED absCopy
    /\ UNCHANGED outsideCharacter

CallSetInventory(newItem) ==
    /\ nChrOps < MaxChrOps
    /\ chr' = SetInventory(chr, newItem)
    /\ chrOp' = [op |-> "SetInventory", arg |-> newItem.Name]
    /\ nChrOps' = nChrOps + 1
    /\ UNCHANGED absCopy
    /\ UNCHANGED outsideCharacter

\* abs := chr.GetAbilities()
CallGetAbilities ==
    /\ nChrOps < MaxChrOps
    /\ absCopy' = <<GetAbilities(chr)>>
    /\ chrOp' = [op |-> "GetAbilities", arg |-> ""]
    /\ nChrOps' = nChrOps + 1
    /\ UNCHANGED chr
    /\ UNCHANGED outsideCharacter

\* abs.AddToAbility(abilityName, value), abs the value GetAbilities returned
CallAddToReturned(abilityName, value) ==
    /\ nChrOps < MaxChrOps
    /\ absCopy # <<>>
    /\ absCopy' = <<AddToAbility(absCopy[1], abilityName, value).a>>
    /\ chr' = AfterAbilitiesChange(chr, absCopy'[1])
    /\ chrOp' = [op |-> "AddToReturned", arg |-> abilityName]
    /\ nChrOps' = nChrOps + 1
    /\ UNCHANGED outsideCharacter

\* abs.SetAbility(abilityName, value), abs the value GetAbilities returned
CallSetReturned(abilityName, value) ==
    /\ nChrOps < MaxChrOps
    /\ absCopy # <<>>
    /\ absCopy' = <<SetAbility(absCopy[1], abilityName, value).a>>
    /\ chr' = AfterAbilitiesChange(chr, absCopy'[1])
    /\ chrOp' = [op |-> "SetReturned", arg |-> abilityName]
    /\ nChrOps' = nChrOps + 1
    /\ UNCHANGED outsideCharacter

NextCharacter ==
    \/ \E newName \in TextInputs : CallSetName(newName)
    \/ \E newClass \in TextInputs : CallSetClass(newClass)
    \/ \E newCondition \in TextInputs : CallSetCondition(newCondition)
    \/ \E newItem \in {SwordItem, BowItem} : CallSetInventory(newItem)
    \/ CallGetAbilities
    \/ \E abilityName \in CopyNameInputs, value \in CopyValueInputs :
           CallAddToReturned(abilityName, value)
    \/ \E abilityName \in CopyNameInputs, value \in CopyValueInputs :
           CallSetReturned(abilityName, value)

SpecCharacter == InitCharacter /\ [][NextCharacter]_vars

(***************************************************************************)
(* Specification Spec: the service, one request after another              *)
(***************************************************************************)
Init ==
    /\ SvcIdle
    /\ NewIdle
    /\ AblIdle
    /\ InvIdle
    /\ ChrIdle

\* The handler of /create-character on a request with this method and, decoded,
\* this body.
CreateCharacter(method, charReq) ==
    /\ Len(characters) + Len(charReq) <= MaxChars
    /\ IF method # "POST"
       THEN /\ resp' = Response("create-character", 405, <<>>, "Method not allowed", 0, <<>>)
            /\ UNCHANGED characters
       ELSE LET r == CreateLoop(characters, <<>>, charReq)
            IN  /\ characters' = r.characters
                /\ resp' = Response("create-character",
                                    IF r.created # <<>> THEN 201
                                    ELSE IF r.error # "" THEN 400 ELSE 200,
                                    r.created, r.error, 0, <<>>)
    /\ UNCHANGED outsideService

\* The handler of /create-character on a body that is not the JSON of a request list.
CreateCharacterInvalidJSON ==
    /\ resp' = Response("create-character", 400, <<>>, "Invalid JSON", 0, <<>>)
    /\ UNCHANGED characters
    /\ UNCHANGED outsideService

\* The handler of /get-chars.
GetChars(method) ==
    /\ IF method # "GET"
       THEN resp' = Response("get-chars", 405, <<>>, "Method not allowed", 0, <<>>)
       ELSE resp' = Response("get-chars", 200, <<>>, "", Len(characters), ListRows(characters))
    /\ UNCHANGED characters
    /\ UNCHANGED outsideService

Next ==
    \/ \E method \in MethodInputs, charReq \in BodyInputs : CreateCharacter(method, charReq)
    \/ CreateCharacterInvalidJSON
    \/ \E method \in MethodInputs : GetChars(method)

Spec == Init /\ [][Next]_vars

(***************************************************************************)
(* Specification SpecMana: a behaviour either calls the methods of one     *)
(* character or sends requests to the service                              *)
(***************************************************************************)
NextMana ==
    \/ (characters = <<>> /\ resp = NoResponse /\ NextCharacter)
    \/ (nChrOps = 0 /\ Next)

SpecMana == InitCharacter /\ [][NextMana]_vars

(***************************************************************************)
(* Claims about package abilities                                          *)
(***************************************************************************)
Sum6(t) == t[1] + t[2] + t[3] + t[4] + t[5] + t[6]

\* C1: NewAbilities succeeds if and only if each of the six values is in [1,10]
\* and they sum to 35; on success the attributes are the arguments and pointsPool
\* is 5 minus the sum over the attributes of (value - 5).
C1_NewAbilitiesContract ==
    newRes.err # "pending" =>
        /\ (newRes.err = "nil") <=>
               ((\A i \in 1..6 : newArgs[i] >= 1 /\ newArgs[i] <= 10) /\ Sum6(newArgs) = 35)
        /\ newRes.err = "nil" =>
               /\ newRes.val.pointsPool = 5 - (Sum6(newArgs) - 6 * 5)
               /\ <<newRes.val.strength, newRes.val.luck, newRes.val.charisma,
                    newRes.val.agility, newRes.val.perception, newRes.val.intelligence>>
                  = newArgs

\* A successful construction that uses both limits of the range.
C1_Witness ==
    /\ newRes.err = "nil"
    /\ newArgs = <<1, 10, 10, 4, 5, 5>>
    /\ newRes.val.pointsPool = 0

\* C2: after any sequence of AddToAbility and SetAbility calls, failed or not, on a
\* value made by NewDefaultAbilities or a successful NewAbilities, each attribute
\* is in [1,10] and pointsPool is not negative.
C2_RangeAndPool ==
    /\ \A n \in AbilityNames : abl[n] >= 1 /\ abl[n] <= 10
    /\ abl.pointsPool >= 0

\* The pool is spent to the last point and a further increase has been refused.
C2_Witness ==
    /\ nOps = 2
    /\ abl.pointsPool = 0
    /\ abl.strength = 10
    /\ ablOp.op = "AddToAbility"
    /\ ablOp.value > 0
    /\ ablErr = "insufficient_points"

\* C8: for a name that is not one of the six, AddToAbility and SetAbility fail
\* with the unknown-attribute error whatever the argument and the pool, and leave
\* the attributes and the pool as they were.
C8_UnknownAttribute ==
    [][(nOps' = nOps + 1 /\ ablOp'.name \notin AbilityNames)
          => (ablErr' = "unknown_ability" /\ abl' = abl)]_vars

(***************************************************************************)
(* Claims about package inventory                                          *)
(***************************************************************************)
\* C3: an inventory that starts empty and is changed by AddItem, RemoveItem,
\* ChangeItem and Clear holds at most one entry per (name, condition) pair.
C3_OneEntryPerKey ==
    \A i \in 1..Len(Items) : \A j \in 1..Len(Items) :
        (Items[i].Name = Items[j].Name /\ Items[i].condition = Items[j].condition) => i = j

\* The entries of `items` with the name and the condition of `item`.
SameKey(items, item) ==
    {i \in 1..Len(items) : items[i].Name = item.Name /\ items[i].condition = item.condition}

\* C4: AddItem(item), when an entry has item's (name, condition), keeps the number
\* of entries and adds item.quantity to that entry's quantity; otherwise it
\* appends item as the last entry; every other entry keeps its content and place.
C4_AddItemStacksOrAppends ==
    [][\A item \in ItemInputs :
           CallAddItem(item) =>
               IF SameKey(Items, item) # {}
               THEN /\ Len(Items') = Len(Items)
                    /\ \E i \in SameKey(Items, item) :
                           /\ Items'[i].quantity = Items[i].quantity + item.quantity
                           /\ Items'[i].Name = Items[i].Name
                           /\ Items'[i].condition = Items[i].condition
                           /\ Items'[i].description = Items[i].description
                           /\ Items'[i].abilities = Items[i].abilities
                           /\ \A j \in 1..Len(Items) : j # i => Items'[j] = Items[j]
               ELSE /\ Len(Items') = Len(Items) + 1
                    /\ Items'[Len(Items')] = item
                    /\ \A j \in 1..Len(Items) : Items'[j] = Items[j]]_vars

\* A second entry that holds the sum of two additions, 1 + 2 or 2 + 1.
C4_Witness ==
    /\ invRet.op = "AddItem"
    /\ invRet.log = "stacked"
    /\ Len(Items) = 2
    /\ Items[1].quantity = 1
    /\ Items[2].quantity = 3

\* C5: RemoveItem(name, q) fails with not-found when no entry has the name and
\* with insufficient-quantity when the first entry of that name holds less than
\* q, the inventory unchanged in both cases; otherwise it succeeds, that entry's
\* quantity drops by q, the entry is deleted exactly when the quantity reaches
\* zero, and every other entry keeps its content and its relative order.
C5_RemoveItemContract ==
    [][\A name \in StringInputs, q \in QuantityInputs :
           CallRemoveItem(name, q) =>
               LET F == {i \in 1..Len(Items) : Items[i].Name = name}
               IN  IF F = {}
                   THEN invRet'.err = "not_found" /\ Items' = Items
                   ELSE LET i == CHOOSE k \in F : \A j \in F : k <= j
                        IN  IF Items[i].quantity < q
                            THEN invRet'.err = "insufficient" /\ Items' = Items
                            ELSE /\ invRet'.err = "nil"
                                 /\ IF Items[i].quantity - q = 0
                                    THEN /\ Len(Items') = Len(Items) - 1
                                         /\ \A j \in 1..(i - 1) : Items'[j] = Items[j]
                                         /\ \A j \in i..Len(Items') : Items'[j] = Items[j + 1]
                                    ELSE /\ Len(Items') = Len(Items)
                                         /\ Items'[i] = [Items[i] EXCEPT
                                                            !.quantity = Items[i].quantity - q]
                                         /\ \A j \in 1..Len(Items) :
                                                j # i => Items'[j] = Items[j]]_vars

\* One of two entries was removed whole, after three calls.
C5_Witness ==
    /\ invRet.op = "RemoveItem"
    /\ invRet.err = "nil"
    /\ invRet.log = "depleted"
    /\ Len(Items) = 1
    /\ nInvOps = 3

\* C9: ChangeItem with a field list that holds an unrecognized field name, at any
\* position, returns nil and leaves the inventory as it was before the call.
C9_UnknownFieldAborts ==
    [][\A name \in StringInputs, fields \in FieldListInputs, newVal \in AnyInputs :
           ((\E k \in 1..Len(fields) : fields[k] \notin FieldNames)
            /\ CallChangeItem(name, fields, newVal))
               => (invRet'.ptr = 0 /\ Items' = Items)]_vars

(***************************************************************************)
(* Claims about the handlers                                               *)
(***************************************************************************)
\* A request fails validation: its abilities, the abilities of one of its items,
\* or the construction of one of its items is refused.
FailsValidation(req) ==
    \/ NewAbilities(req.Abilities[1], req.Abilities[2], req.Abilities[3],
                    req.Abilities[4], req.Abilities[5], req.Abilities[6]).err # "nil"
    \/ \E i \in 1..Len(req.Items) :
           \/ ItemAbilities(req.Items[i]).err # "nil"
           \/ NewItem(req.Items[i].Name, req.Items[i].Quantity,
                      ItemAbilities(req.Items[i]).ptr, req.Items[i].Condition,
                      req.Items[i].Description).err # "nil"

\* C6: when a request of a batch fails validation, the handler rejects and stops
\* there: the stored list is then the list before the call followed by the
\* characters of the requests before the first failing one, in order, and neither
\* that request nor a later one adds a character.
C6_BatchStopsAtFirstFailure ==
    [][\A charReq \in BodyInputs :
           (CreateCharacter("POST", charReq)
            /\ \E k \in 1..Len(charReq) : FailsValidation(charReq[k]))
               => LET k == CHOOSE k \in 1..Len(charReq) :
                               /\ FailsValidation(charReq[k])
                               /\ \A j \in 1..(k - 1) : ~FailsValidation(charReq[j])
                  IN  /\ resp'.error # ""
                      /\ Len(resp'.created) = k - 1
                      /\ Len(characters') = Len(characters) + (k - 1)
                      /\ \A j \in 1..Len(characters) : characters'[j] = characters[j]
                      /\ \A j \in 1..(k - 1) :
                             /\ characters'[Len(characters) + j].name = charReq[j].Name
                             /\ characters'[Len(characters) + j].race = charReq[j].Race
                             /\ characters'[Len(characters) + j].class = charReq[j].Class
                             /\ characters'[Len(characters) + j].condition
                                    = charReq[j].Condition]_vars

\* A batch whose second request has abilities that sum to 36 was rejected after
\* its first request had been stored behind an earlier character.
C6_Witness ==
    /\ resp.handler = "create-character"
    /\ resp.error = "Invalid abilities"
    /\ Len(resp.created) = 1
    /\ Len(characters) = 2
    /\ characters[2].name = resp.created[1].name

\* The number of inventory entries of the first n stored characters.
RECURSIVE EntriesBefore(_)
EntriesBefore(n) ==
    IF n = 0 THEN 0 ELSE EntriesBefore(n - 1) + Len(characters[n].inventory)

\* C7: the listing reports as count the number of stored characters and returns
\* one row per (stored character, inventory entry of it), in storage order; a
\* character without entries adds no row and is still counted.
C7_ListingRows ==
    (resp.handler = "get-chars" /\ resp.status = 200) =>
        /\ resp.count = Len(characters)
        /\ Len(resp.rows) = EntriesBefore(Len(characters))
        /\ \A c \in 1..Len(characters) : \A e \in 1..Len(characters[c].inventory) :
               LET row == resp.rows[EntriesBefore(c - 1) + e]
               IN  /\ row.name = characters[c].name
                   /\ row.race = characters[c].race
                   /\ row.class = characters[c].class
                   /\ row.condition = characters[c].condition
                   /\ row.manaPoints = characters[c].manaPoints
                   /\ row.item.name = characters[c].inventory[e].Name
                   /\ row.item.qantity = characters[c].inventory[e].quantity
                   /\ row.item.condition = characters[c].inventory[e].condition

\* A listing of two characters, the first without entries and the second with
\* two: two rows, both of the second character, and a count of two.
C7_Witness ==
    /\ resp.handler = "get-chars"
    /\ resp.status = 200
    /\ Len(characters) = 2
    /\ characters[1].inventory = <<>>
    /\ Len(characters[2].inventory) = 2
    /\ resp.count = 2
    /\ Len(resp.rows) = 2

(***************************************************************************)
(* Claims about package character                                          *)
(***************************************************************************)
\* The empty string and the whitespace-only strings among TextInputs.
IsBlank(s) == s \in {"", " "}

\* C10 as stated: SetName, SetClass and SetCondition, given an empty or a blank
\* (whitespace-only) value, leave the character as it is; given another value
\* they replace the field they are named after and nothing else.
C10_BlankIsNoOp ==
    [][\A s \in TextInputs :
           /\ CallSetName(s) =>
                  chr' = IF IsBlank(s) THEN chr ELSE [chr EXCEPT !.name = s]
           /\ CallSetClass(s) =>
                  chr' = IF IsBlank(s) THEN chr ELSE [chr EXCEPT !.class = s]
           /\ CallSetCondition(s) =>
                  chr' = IF IsBlank(s) THEN chr ELSE [chr EXCEPT !.condition = s]]_vars

\* C10 amended: SetName, SetClass and SetCondition, given the empty string, leave
\* the character as it is; given any other value, a whitespace-only one included,
\* they replace the field they are named after and nothing else.
C10_EmptyIsNoOp ==
    [][\A s \in TextInputs :
           /\ CallSetName(s) =>
                  chr' = IF s = "" THEN chr ELSE [chr EXCEPT !.name = s]
           /\ CallSetClass(s) =>
                  chr' = IF s = "" THEN chr ELSE [chr EXCEPT !.class = s]
           /\ CallSetCondition(s) =>
                  chr' = IF s = "" THEN chr ELSE [chr EXCEPT !.condition = s]]_vars

\* SetName("") was called on a character whose name a call before had set to one
\* space, and the name is still that space.
C10_Witness ==
    /\ chrOp = [op |-> "SetName", arg |-> ""]
    /\ chr.name = " "
    /\ nChrOps >= 2

(***************************************************************************)
(* Claims about quantities and the budget                                  *)
(***************************************************************************)
\* C11: every entry of an inventory has a quantity above zero in every reachable
\* state, whatever sequence of AddItem (of items NewItem made), RemoveItem (of any
\* integer, zero and negative included), ChangeItem and Clear led to it.
C11_PositiveQuantities ==
    \A i \in 1..Len(Items) : Items[i].quantity > 0

\* C12: pointsPool plus the sum of the six attributes is 35 in every state
\* reached by AddToAbility and SetAbility from NewDefaultAbilities or a successful
\* NewAbilities; so the attributes never sum to more than 35.
C12_BudgetConserved ==
    LET total == abl.strength + abl.luck + abl.charisma + abl.agility + abl.perception
                 + abl.intelligence
    IN  /\ abl.pointsPool + total = 35
        /\ total <= 35

\* Points given back by a decrease were spent on another attribute: strength is
\* below the default, luck above it, after two successful calls.
C12_Witness ==
    /\ nOps = 2
    /\ ablErr = "nil"
    /\ abl.strength < 5
    /\ abl.luck > 5
    /\ abl.pointsPool > 0

(***************************************************************************)
(* Claims about mana points                                                *)
(***************************************************************************)
\* C13: a character made by NewCharacter or NewDefaultCharacter has manaPoints
\* equal to 50 times the intelligence of its own abilities, at construction and
\* after any of SetName, SetClass, SetCondition, SetInventory and any change of
\* the Abilities value GetAbilities returned; and every stored character has
\* manaPoints = intelligence * 50, within [50, 500].
C13_ManaFollowsIntelligence ==
    /\ GetManaPoints(chr) = 50 * chr.abilities.intelligence
    /\ \A i \in 1..Len(characters) :
           /\ GetManaPoints(characters[i]) = characters[i].abilities.intelligence * 50
           /\ GetManaPoints(characters[i]) >= 50
           /\ GetManaPoints(characters[i]) <= 500

\* The caller changed the intelligence of the value GetAbilities returned; the
\* character's own intelligence, and its mana points, are as constructed.
C13_Witness ==
    /\ chrOp.op \in {"AddToReturned", "SetReturned"}
    /\ absCopy # <<>>
    /\ absCopy[1].intelligence # chr.abilities.intelligence
    /\ chr.manaPoints = 50 * chr.abilities.intelligence

(***************************************************************************)
(* Claims about items that carry abilities                                 *)
(***************************************************************************)
\* The request has an inventory item whose JSON carries an abilities object.
HasItemAbilities(req) == \E i \in 1..Len(req.Items) : req.Items[i].Abilities # <<>>

\* Whatever six values an item's abilities object holds, out of NewAbilityInputs,
\* NewAbilities refuses them or NewItem refuses what NewAbilities made of them.
NoAbilitiesPassBoth ==
    \A t \in NewAbilityInputs \X NewAbilityInputs \X NewAbilityInputs
              \X NewAbilityInputs \X NewAbilityInputs \X NewAbilityInputs :
        LET itemAbs == NewAbilities(t[1], t[2], t[3], t[4], t[5], t[6])
        IN  \/ itemAbs.err # "nil"
            \/ NewItem("Ring", 1, <<itemAbs.val>>, NewCondition("New"), "").err # "nil"

\* C14: a create-character request with an inventory item that carries an
\* abilities object is never accepted: NewAbilities or NewItem refuses the item,
\* the handler rejects the request and stores no character for it, and no stored
\* character holds an item with abilities.
C14_ItemAbilitiesNeverAccepted ==
    [][/\ NoAbilitiesPassBoth
       /\ \A charReq \in BodyInputs :
           CreateCharacter("POST", charReq) =>
               /\ \A k \in 1..Len(charReq) :
                      HasItemAbilities(charReq[k]) =>
                          /\ resp'.error # ""
                          /\ Len(resp'.created) < k
                          /\ Len(characters') < Len(characters) + k
               /\ \A i \in 1..Len(characters') :
                      \A e \in 1..Len(characters'[i].inventory) :
                          characters'[i].inventory[e].abilities = NilAbilities]_vars

\* A batch was rejected at an item whose abilities NewAbilities accepts and
\* NewItem refuses, after the request before it had been stored.
C14_Witness ==
    /\ resp.handler = "create-character"
    /\ resp.error = "Invalid item: item ability"
    /\ Len(resp.created) = 1
    /\ Len(characters) >= 1
    /\ characters[Len(characters)].name = resp.created[1].name

====
